---------------------------- MODULE Spec2Model ----------------------------
(***************************************************************************)
(* Model of the BI-Mobiliario dashboard: the credential store and login    *)
(* gate of auth.py, and the column aliaser, sheet merge and chained filter *)
(* sidebar of app.py.                                                      *)
(*                                                                         *)
(* Text is modelled as a sequence of one-character strings, so that        *)
(* startswith, strip, lower, substring containment and equality are        *)
(* computed on characters as Python computes them.                         *)
(***************************************************************************)
EXTENDS Integers, Sequences, FiniteSets, TLC

VARIABLES
    secrets,      \* st.secrets: [present, section]
    credfile,     \* credentials.json: [exists, valid, data]
    users,        \* AuthManager.users
    session,      \* st.session_state: authenticated, username, user_info
    page,         \* what the last script run rendered
    op,           \* the last operation, its arguments and its return value
    nadds,        \* number of add_user calls so far (bounded)
    df_cols,      \* df.columns of the table given to the column resolvers
    mapeamento,   \* what mapear_colunas(df) returned
    achado,       \* what find_col(df, targets) returned, and for which targets
    cop,          \* the last resolver called
    todas_abas,   \* the workbook: the sheets in order, each [aba, cols, rows]
    abas_sel,     \* st.session_state["abas_sel"]
    df_work,      \* the working table after the merge of the sheets
    mop,          \* "init", or "merged" once the script has built df_work
    wstate,       \* st.session_state entries of the filter widgets, by key
    reset_key,    \* st.session_state["reset_key"] (0 while absent)
    view,         \* what the last run of the filter sidebar produced
    fop,          \* "limpar_filtros" when that call led to the last run
    nx,           \* a text handed to norm
    ny            \* the results of applying norm to it, then to its result

authVars == <<secrets, credfile, users, session, page, op, nadds>>

colVars == <<df_cols, mapeamento, achado, cop>>

mergeVars == <<todas_abas, abas_sel, df_work, mop>>

filterVars == <<wstate, reset_key, view, fop>>

normVars == <<nx, ny>>

vars == <<authVars, colVars, mergeVars, filterVars, normVars>>


-----------------------------------------------------------------------------
(* Bounds *)

SaltLen == 1
MaxAdds == 1
MaxCols == 3
MaxWbCols == 3
SheetRows == 2
MaxResets == 1
MaxNormLen == 3

-----------------------------------------------------------------------------
(* Text helpers *)

StartsWith(s, p) == Len(s) >= Len(p) /\ SubSeq(s, 1, Len(p)) = p

Reverse(s) == [i \in 1..Len(s) |-> s[Len(s) + 1 - i]]

IsSpace(c) == c \in {" ", "nbsp"}

RECURSIVE LStrip(_)
LStrip(s) == IF s # <<>> /\ IsSpace(s[1]) THEN LStrip(Tail(s)) ELSE s

\* str.strip()
Strip(s) == Reverse(LStrip(Reverse(LStrip(s))))

\* dict.get(k, default)
Get(d, k, default) == IF k \in DOMAIN d THEN d[k] ELSE default

\* Python's `x or y` on strings: the first non-empty one
Or(x, y) == IF x # <<>> THEN x ELSE y

\* dict with one more (or one replaced) item
Put(d, k, v) == [x \in (DOMAIN d) \cup {k} |-> IF x = k THEN v ELSE d[x]]

kUsuario  == <<"u","s","u","a","r","i","o">>
kSenha    == <<"s","e","n","h","a">>
kNome     == <<"n","o","m","e">>
kName     == <<"n","a","m","e">>
kRole     == <<"r","o","l","e">>
kPassword == <<"p","a","s","s","w","o","r","d">>
kUsername == <<"u","s","e","r","n","a","m","e">>
tUser     == <<"u","s","e","r">>
tAdmin    == <<"a","d","m","i","n">>

EmptyDict == [x \in {} |-> <<>>]

-----------------------------------------------------------------------------
(* bcrypt, as an ideal salted hash: the digest is injective in             *)
(* (password, salt); a hash string is prefix ++ salt ++ digest.            *)

BcryptPrefixes ==
    { <<"$","2","a","$">>, <<"$","2","b","$">>, <<"$","2","y","$">> }

PrefixLen == 4

SaltChars == {"s", "t"}

\* the salt strings bcrypt.gensalt can return
GenSalts ==
    { <<"$","2","b","$">> \o s : s \in [1..SaltLen -> SaltChars] }

Digest(password, salt) == Reverse(password) \o salt

\* a string bcrypt accepts as salt / hash: known prefix, full salt
ValidSalt(s) ==
    /\ Len(s) >= PrefixLen + SaltLen
    /\ SubSeq(s, 1, PrefixLen) \in BcryptPrefixes
    /\ \A i \in (PrefixLen + 1)..(PrefixLen + SaltLen) : s[i] \in SaltChars

\* bcrypt.hashpw(password, salt): salt may be a whole hash
hashpw(password, salt) ==
    LET sp == SubSeq(salt, 1, PrefixLen + SaltLen)
    IN  sp \o Digest(password, SubSeq(sp, PrefixLen + 1, PrefixLen + SaltLen))

\* bcrypt.checkpw(password, hashed); raises ValueError on an invalid salt
checkpw_raises(hashed) == ~ValidSalt(hashed)
checkpw(password, hashed) == hashpw(password, hashed) = hashed

is_bcrypt(value) == \E p \in BcryptPrefixes : StartsWith(value, p)

hash_password(password, salt) == hashpw(password, salt)

verify_plain(password, stored) == password = stored

verify(password, stored) ==
    IF is_bcrypt(stored)
    THEN IF checkpw_raises(stored) THEN FALSE ELSE checkpw(password, stored)
    ELSE password = stored


-----------------------------------------------------------------------------
(* The two credential sources *)

\* a value of the [credentials] section: a string or a table
StrV(s)  == [t |-> "str",  s |-> s,    d |-> EmptyDict]
DictV(d) == [t |-> "dict", s |-> <<>>, d |-> d]

uA  == <<"a">>
uB  == <<"b">>
uSA == <<" ","a">>
pP  == <<"p">>
pQ  == <<"q">>
\* a plain-text secret that merely looks like a hash
pFake == <<"$","2","b","$">>

HashP == hashpw(pP, <<"$","2","a","$">> \o [i \in 1..SaltLen |-> "s"])

Usernames == {<<>>, uA, uB}
Passwords == {<<>>, pP, pQ, pFake}

NoSection == [k \in {} |-> StrV(<<>>)]

SecretsPool ==
    { \* no [credentials] at all
      [present |-> FALSE, section |-> NoSection],
      \* an empty [credentials]
      [present |-> TRUE, section |-> NoSection],
      \* format 1: usuario / senha / nome
      [present |-> TRUE,
       section |-> (kUsuario :> StrV(uSA)) @@ (kSenha :> StrV(pP))
                   @@ (kNome :> StrV(<<"A">>))],
      \* format 1 without senha: no entry in either format
      [present |-> TRUE, section |-> (kUsuario :> StrV(uA))],
      \* format 2: one table per user; b has no password, role is a string
      [present |-> TRUE,
       section |-> (uA :> DictV((kPassword :> HashP) @@ (kRole :> tAdmin)))
                   @@ (uB :> DictV((kName :> <<"B">>)))
                   @@ (kRole :> StrV(tUser))],
      \* format 2 with a plain-text secret shaped like a hash
      [present |-> TRUE,
       section |-> (uB :> DictV((kPassword :> pFake) @@ (kNome :> <<"B">>)))] }

NoData == [u \in {} |-> EmptyDict]

FilePool ==
    { [exists |-> FALSE, valid |-> FALSE, data |-> NoData],
      \* not JSON, or not an object of objects
      [exists |-> TRUE,  valid |-> FALSE, data |-> NoData],
      [exists |-> TRUE,  valid |-> TRUE,  data |-> NoData],
      [exists |-> TRUE,  valid |-> TRUE,
       data |-> (uB :> ((kPassword :> pQ)))],
      [exists |-> TRUE,  valid |-> TRUE,
       data |-> (uA :> ((kPassword :> HashP) @@ (kName :> <<"A">>)
                        @@ (kRole :> tAdmin)))
                @@ (uB :> EmptyDict)] }

Entry(password, name, role) ==
    (kPassword :> password) @@ (kName :> name) @@ (kRole :> role)

\* Caso 1 of _load_from_secrets
IsFlat(section) ==
    /\ kUsuario \in DOMAIN section
    /\ kSenha \in DOMAIN section
    /\ section[kUsuario].t = "str"

SecStr(section, k) == IF k \in DOMAIN section THEN section[k].s ELSE <<>>

load_from_secrets(sec) ==
    IF ~sec.present THEN NoData
    ELSE LET section == sec.section IN
         IF IsFlat(section)
         THEN LET username == Strip(section[kUsuario].s)
                  stored   == section[kSenha].s
                  name     == Or(SecStr(section, kNome),
                                 Or(SecStr(section, kName), username))
                  role     == Or(SecStr(section, kRole), tUser)
              IN  (username :> Entry(stored, name, role))
         ELSE LET kept == { u \in DOMAIN section :
                              /\ section[u].t = "dict"
                              /\ Get(section[u].d, kPassword, <<>>) # <<>> }
              IN  [u \in kept |->
                     LET user_data == section[u].d
                     IN  Entry(Get(user_data, kPassword, <<>>),
                               Or(Get(user_data, kName, <<>>),
                                  Or(Get(user_data, kNome, <<>>), u)),
                               Or(Get(user_data, kRole, <<>>), tUser))]

load_from_json(f) ==
    IF ~f.exists \/ ~f.valid THEN NoData
    ELSE [u \in DOMAIN f.data |->
            LET d == f.data[u]
            IN  Put(Put(Put(d, kPassword, Get(d, kPassword, <<>>)),
                        kName, Get(d, kName, u)),
                    kRole, Get(d, kRole, tUser))]

load_credentials_merged(sec, f) ==
    LET a == load_from_secrets(sec)
        b == load_from_json(f)
    IN  [u \in (DOMAIN a) \cup (DOMAIN b) |->
            IF u \in DOMAIN a THEN a[u] ELSE b[u]]

load_credentials(sec, f) ==
    LET creds == load_from_secrets(sec)
    IN  IF creds # NoData THEN creds ELSE load_from_json(f)

\* what json.dump(self.users) leaves in the file
save_credentials_json(us) == [exists |-> TRUE, valid |-> TRUE, data |-> us]

authenticate(us, username, password) ==
    IF username \notin DOMAIN us \/ us[username] = EmptyDict
    THEN FALSE
    ELSE verify(password, Get(us[username], kPassword, <<>>))

get_user_info(us, username) ==
    IF username \notin DOMAIN us \/ us[username] = EmptyDict
    THEN EmptyDict
    ELSE LET user == us[username]
         IN  [k \in ((DOMAIN user) \ {kPassword}) \cup {kUsername} |->
                 IF k = kUsername THEN username ELSE user[k]]

-----------------------------------------------------------------------------
(* Session state and the login gate *)

Some(v)  == [some |-> TRUE, v |-> v]
NoText   == [some |-> FALSE, v |-> <<>>]
NoInfo   == [some |-> FALSE, v |-> EmptyDict]

NoSession == [k \in {} |-> FALSE]

init_session_state(ss) ==
    [k \in {"authenticated", "username", "user_info"} |->
        IF k \in DOMAIN ss THEN ss[k]
        ELSE IF k = "authenticated" THEN FALSE
        ELSE IF k = "username" THEN NoText
        ELSE NoInfo]

logout_state(ss) ==
    [k \in (DOMAIN ss) \cup {"authenticated", "username", "user_info"} |->
        IF k = "authenticated" THEN FALSE
        ELSE IF k = "username" THEN NoText
        ELSE IF k = "user_info" THEN NoInfo
        ELSE ss[k]]

\* the fields login_form sets on a successful login
LoggedIn(ss, us, username) ==
    [k \in DOMAIN ss |->
        IF k = "authenticated" THEN TRUE
        ELSE IF k = "username" THEN Some(username)
        ELSE IF k = "user_info"
             THEN (IF get_user_info(us, username) = EmptyDict THEN NoInfo
                   ELSE Some(get_user_info(us, username)))
        ELSE ss[k]]

\* login_form's `if submit:` block: "error", "ok" or "wrong"
login_always(us, username, password) == "ok"

login_outcome(us, username, password) ==
    IF username = <<>> \/ password = <<>> THEN "error"
    ELSE IF authenticate(us, username, password) THEN "ok"
    ELSE "wrong"

\* require_authentication: TRUE when the render goes on past the gate
gate_passes(ss) == ss["authenticated"]

OpRec(name, username, password, submit, ret) ==
    [name |-> name, username |-> username, password |-> password,
     submit |-> submit, ret |-> ret]

-----------------------------------------------------------------------------
(* Operations of the credential store and of the gate *)

\* AuthManager.__init__
Construct ==
    /\ page # "rerun"
    /\ users' = load_credentials(secrets, credfile)
    /\ op' = OpRec("construct", <<>>, <<>>, FALSE, TRUE)
    /\ UNCHANGED <<secrets, credfile, session, page, nadds>>
    /\ UNCHANGED <<colVars, mergeVars, filterVars, normVars>>

Authenticate(username, password) ==
    /\ page # "rerun"
    /\ op' = OpRec("authenticate", username, password, FALSE,
                   authenticate(users, username, password))
    /\ UNCHANGED <<secrets, credfile, users, session, page, nadds>>
    /\ UNCHANGED <<colVars, mergeVars, filterVars, normVars>>

\* the entry add_user stores
new_entry_plain(password, salt, name, role) == Entry(password, name, role)

new_entry(password, salt, name, role) ==
    Entry(hash_password(password, salt), name, role)

AddUser(username, password, name, role, salt) ==
    /\ page # "rerun"
    /\ nadds < MaxAdds
    /\ nadds' = nadds + 1
    /\ IF username \in DOMAIN users
       THEN /\ op' = OpRec("add_user", username, password, FALSE, FALSE)
            /\ UNCHANGED <<users, credfile>>
       ELSE /\ users' = Put(users, username,
                            new_entry(password, salt, name, role))
            /\ credfile' = save_credentials_json(users')
            /\ op' = OpRec("add_user", username, password, FALSE, TRUE)
    /\ UNCHANGED <<secrets, session, page>>
    /\ UNCHANGED <<colVars, mergeVars, filterVars, normVars>>

\* One run of the script up to the gate (app.py 27-31), with the login form
\* either left alone or submitted with (username, password).
Run(submit, username, password) ==
    /\ submit => page = "login"
    /\ LET ss == init_session_state(session)
           us == load_credentials(secrets, credfile)
       IN  /\ users' = us
           /\ op' = OpRec("run", username, password, submit,
                          submit /\ authenticate(us, username, password))
           /\ IF gate_passes(ss)
              THEN /\ session' = ss
                   /\ page' = "dashboard"
              ELSE IF submit /\ login_outcome(us, username, password) = "ok"
                   THEN /\ session' = LoggedIn(ss, us, username)
                        /\ page' = "rerun"
                   ELSE /\ session' = ss
                        /\ page' = "login"
    /\ UNCHANGED <<secrets, credfile, nadds>>
    /\ UNCHANGED <<colVars, mergeVars, filterVars, normVars>>

Rerun == Run(FALSE, <<>>, <<>>)

Submit == \E u \in Usernames, p \in Passwords : Run(TRUE, u, p)

\* logout(), behind the "Sair" button of the authenticated page
Logout ==
    /\ page = "dashboard"
    /\ session' = logout_state(session)
    /\ page' = "rerun"
    /\ op' = OpRec("logout", <<>>, <<>>, FALSE, TRUE)
    /\ UNCHANGED <<secrets, credfile, users, nadds>>
    /\ UNCHANGED <<colVars, mergeVars, filterVars, normVars>>


-----------------------------------------------------------------------------
(* Text of app.py.  A character outside ASCII is named: "c_cedilla" is     *)
(* U+00E7, "a_tilde" U+00E3, "degree" U+00B0, "ordm" U+00BA, "nbsp"        *)
(* U+00A0, "fraktur_H" U+210C, "comb_cedilla" U+0327, "comb_tilde" U+0303. *)

NonAscii ==
    { "c_cedilla", "a_tilde", "C_CEDILLA", "A_TILDE", "degree", "ordm",
      "nbsp", "fraktur_H", "comb_cedilla", "comb_tilde" }

\* canonical field names (keys of ALVO_NOMES)
\* "DESCRIÇÃO DO ITEM RESUMIDA"
fDescricao ==
    <<"D","E","S","C","R","I","C_CEDILLA","A_TILDE","O"," ","D","O"," ","I","T","E","M"," ","R","E","S","U","M","I","D","A">>
\* "UNIDADE DE DESTINO"
fDestino ==
    <<"U","N","I","D","A","D","E"," ","D","E"," ","D","E","S","T","I","N","O">>
\* "N° DA OF"
fOF ==
    <<"N","degree"," ","D","A"," ","O","F">>
\* "QUANTIDADE ENTREGUE NA UNIDADE"
fQtdEntregue ==
    <<"Q","U","A","N","T","I","D","A","D","E"," ","E","N","T","R","E","G","U","E"," ","N","A"," ","U","N","I","D","A","D","E">>
\* "QUANTIDADE NA ATA E CONSUMO"
fQtdAta ==
    <<"Q","U","A","N","T","I","D","A","D","E"," ","N","A"," ","A","T","A"," ","E"," ","C","O","N","S","U","M","O">>

\* the keys of ALVO_NOMES in dict order
ALVO_KEYS == <<fDescricao, fDestino, fOF, fQtdEntregue, fQtdAta>>

ALVO_NOMES ==
    (fDescricao :> <<
        \* "descrição do item resumida"
        <<"d","e","s","c","r","i","c_cedilla","a_tilde","o"," ","d","o"," ","i","t","e","m"," ","r","e","s","u","m","i","d","a">>,
        \* "descricao do item resumida"
        <<"d","e","s","c","r","i","c","a","o"," ","d","o"," ","i","t","e","m"," ","r","e","s","u","m","i","d","a">>,
        \* "descricao"
        <<"d","e","s","c","r","i","c","a","o">>,
        \* "resumida"
        <<"r","e","s","u","m","i","d","a">>,
        \* "item"
        <<"i","t","e","m">> >>)
    @@
    (fDestino :> <<
        \* "unidade de destino"
        <<"u","n","i","d","a","d","e"," ","d","e"," ","d","e","s","t","i","n","o">>,
        \* "unidades de destino"
        <<"u","n","i","d","a","d","e","s"," ","d","e"," ","d","e","s","t","i","n","o">>,
        \* "unidade destino"
        <<"u","n","i","d","a","d","e"," ","d","e","s","t","i","n","o">>,
        \* "unidade"
        <<"u","n","i","d","a","d","e">>,
        \* "destino"
        <<"d","e","s","t","i","n","o">>,
        \* "projeto das equipagem das unidades"
        <<"p","r","o","j","e","t","o"," ","d","a","s"," ","e","q","u","i","p","a","g","e","m"," ","d","a","s"," ","u","n","i","d","a","d","e","s">> >>)
    @@
    (fOF :> <<
        \* "n° da of"
        <<"n","degree"," ","d","a"," ","o","f">>,
        \* "nº da of"
        <<"n","ordm"," ","d","a"," ","o","f">>,
        \* "no da of"
        <<"n","o"," ","d","a"," ","o","f">>,
        \* "n da of"
        <<"n"," ","d","a"," ","o","f">>,
        \* "n° of"
        <<"n","degree"," ","o","f">>,
        \* "nº of"
        <<"n","ordm"," ","o","f">>,
        \* "no of"
        <<"n","o"," ","o","f">>,
        \* "n of"
        <<"n"," ","o","f">>,
        \* "of"
        <<"o","f">> >>)
    @@
    (fQtdEntregue :> <<
        \* "quantidade entregue na unidade"
        <<"q","u","a","n","t","i","d","a","d","e"," ","e","n","t","r","e","g","u","e"," ","n","a"," ","u","n","i","d","a","d","e">>,
        \* "QUANT. ENTREGUE NA UNIDADE"
        <<"Q","U","A","N","T","."," ","E","N","T","R","E","G","U","E"," ","N","A"," ","U","N","I","D","A","D","E">>,
        \* "quantidade entregue"
        <<"q","u","a","n","t","i","d","a","d","e"," ","e","n","t","r","e","g","u","e">>,
        \* "quantidade"
        <<"q","u","a","n","t","i","d","a","d","e">>,
        \* "qtd"
        <<"q","t","d">>,
        \* "quant."
        <<"q","u","a","n","t",".">>,
        \* "quant"
        <<"q","u","a","n","t">> >>)
    @@
    (fQtdAta :> <<
        \* "quantidade na ata e consumo"
        <<"q","u","a","n","t","i","d","a","d","e"," ","n","a"," ","a","t","a"," ","e"," ","c","o","n","s","u","m","o">>,
        \* "qtd na ata e consumo"
        <<"q","t","d"," ","n","a"," ","a","t","a"," ","e"," ","c","o","n","s","u","m","o">>,
        \* "quantidade na ata"
        <<"q","u","a","n","t","i","d","a","d","e"," ","n","a"," ","a","t","a">>,
        \* "quantidade"
        <<"q","u","a","n","t","i","d","a","d","e">>,
        \* "qtd"
        <<"q","t","d">>,
        \* "quant."
        <<"q","u","a","n","t",".">>,
        \* "quant"
        <<"q","u","a","n","t">> >>)

\* "UNIDADES DE DESTINO"
cDestinos ==
    <<"U","N","I","D","A","D","E","S"," ","D","E"," ","D","E","S","T","I","N","O">>
\* "N° OF"
cNOF ==
    <<"N","degree"," ","O","F">>
\* "ABA"
cABA ==
    <<"A","B","A">>
\* "QTD"
cQTD ==
    <<"Q","T","D">>
\* "UNIDADE DE DESTINO FINAL"
cDestinoFinal ==
    <<"U","N","I","D","A","D","E"," ","D","E"," ","D","E","S","T","I","N","O"," ","F","I","N","A","L">>
\* "VALOR TOTAL"
cValorTotal ==
    <<"V","A","L","O","R"," ","T","O","T","A","L">>
\* "VALOR TOTAL (R$)"
cValorTotalRS ==
    <<"V","A","L","O","R"," ","T","O","T","A","L"," ","(","R","$",")">>
\* "Descrição"
cDescricao ==
    <<"D","e","s","c","r","i","c_cedilla","a_tilde","o">>
\* "FORNECEDOR"
cFornecedor ==
    <<"F","O","R","N","E","C","E","D","O","R">>

CAMPOS == <<fDescricao, cDestinos, cNOF, fQtdEntregue, fQtdAta>>

TARGETS_DEST == <<
    \* "UNIDADE DE DESTINO"
    <<"U","N","I","D","A","D","E"," ","D","E"," ","D","E","S","T","I","N","O">>,
    \* "UNIDADES DE DESTINO"
    <<"U","N","I","D","A","D","E","S"," ","D","E"," ","D","E","S","T","I","N","O">> >>

TARGETS_VALOR == <<
    \* "VALOR TOTAL"
    <<"V","A","L","O","R"," ","T","O","T","A","L">>,
    \* "VALOR"
    <<"V","A","L","O","R">>,
    \* "VALOR TOTAL (R$)"
    <<"V","A","L","O","R"," ","T","O","T","A","L"," ","(","R","$",")">>,
    \* "TOTAL (R$)"
    <<"T","O","T","A","L"," ","(","R","$",")">>,
    \* "VALOR PREVISTO"
    <<"V","A","L","O","R"," ","P","R","E","V","I","S","T","O">>,
    \* "VALOR DA OF"
    <<"V","A","L","O","R"," ","D","A"," ","O","F">>,
    \* "VALOR GLOBAL"
    <<"V","A","L","O","R"," ","G","L","O","B","A","L">> >>

TARGETS_UNID == <<
    \* "QUANTIDADE ENTREGUE NA UNIDADE"
    <<"Q","U","A","N","T","I","D","A","D","E"," ","E","N","T","R","E","G","U","E"," ","N","A"," ","U","N","I","D","A","D","E">>,
    \* "QTD ENTREGUE NA UNIDADE"
    <<"Q","T","D"," ","E","N","T","R","E","G","U","E"," ","N","A"," ","U","N","I","D","A","D","E">>,
    \* "QUANT. ENTREGUE NA UNIDADE"
    <<"Q","U","A","N","T","."," ","E","N","T","R","E","G","U","E"," ","N","A"," ","U","N","I","D","A","D","E">>,
    \* "QUANT ENTREGUE NA UNIDADE"
    <<"Q","U","A","N","T"," ","E","N","T","R","E","G","U","E"," ","N","A"," ","U","N","I","D","A","D","E">>,
    \* "QUANT"
    <<"Q","U","A","N","T">>,
    \* "QTD"
    <<"Q","T","D">> >>

\* str.lower() on the characters that have a lowercase form
ToLower ==
    ("A" :> "a") @@ ("B" :> "b") @@ ("C" :> "c") @@ ("D" :> "d") @@
    ("E" :> "e") @@ ("F" :> "f") @@ ("G" :> "g") @@ ("H" :> "h") @@
    ("I" :> "i") @@ ("J" :> "j") @@ ("K" :> "k") @@ ("L" :> "l") @@
    ("M" :> "m") @@ ("N" :> "n") @@ ("O" :> "o") @@ ("P" :> "p") @@
    ("Q" :> "q") @@ ("R" :> "r") @@ ("S" :> "s") @@ ("T" :> "t") @@
    ("U" :> "u") @@ ("V" :> "v") @@ ("W" :> "w") @@ ("X" :> "x") @@
    ("Y" :> "y") @@ ("Z" :> "z") @@ ("C_CEDILLA" :> "c_cedilla") @@ ("A_TILDE" :> "a_tilde")

Lower(c) == IF c \in DOMAIN ToLower THEN ToLower[c] ELSE c

\* unicodedata.normalize("NFKD", c) of one character
Nfkd(c) ==
    CASE c = "c_cedilla" -> <<"c", "comb_cedilla">>
      [] c = "a_tilde"   -> <<"a", "comb_tilde">>
      [] c = "C_CEDILLA" -> <<"C", "comb_cedilla">>
      [] c = "A_TILDE"   -> <<"A", "comb_tilde">>
      [] c = "ordm"      -> <<"o">>
      [] c = "nbsp"      -> <<" ">>
      [] c = "fraktur_H" -> <<"H">>
      [] OTHER           -> <<c>>

RECURSIVE NfkdSeq(_)
NfkdSeq(s) == IF s = <<>> THEN <<>> ELSE Nfkd(s[1]) \o NfkdSeq(Tail(s))

\* .encode("ascii", "ignore").decode("utf-8")
AsciiIgnore(s) ==
    LET IsAscii(c) == c \notin NonAscii
    IN  SelectSeq(s, IsAscii)

norm(s) ==
    LET stripped == Strip(s)
        lower == [i \in 1..Len(stripped) |-> Lower(stripped[i])]
    IN  AsciiIgnore(NfkdSeq(lower))

\* Python's `needle in hay` on strings
Contains(hay, needle) ==
    \E i \in 1..(Len(hay) - Len(needle) + 1) :
        SubSeq(hay, i, i + Len(needle) - 1) = needle

Min(S) == CHOOSE x \in S : \A y \in S : x <= y

\* the normalized aliases of each target field
ALVO_NORM ==
    [alvo \in DOMAIN ALVO_NOMES |->
        [k \in 1..Len(ALVO_NOMES[alvo]) |-> norm(ALVO_NOMES[alvo][k])]]

-----------------------------------------------------------------------------
(* The column resolvers *)

None == [some |-> FALSE, v |-> <<>>]

\* cols_norm = {c: norm(c) for c in df.columns}, in column order
cols_norm(cols) == [i \in 1..Len(cols) |-> norm(cols[i])]

ExactMatch(cn, alvo) ==
    \E k \in 1..Len(ALVO_NORM[alvo]) : cn = ALVO_NORM[alvo][k]

PartMatch(cn, alvo) ==
    \E k \in 1..Len(ALVO_NORM[alvo]) : Contains(cn, ALVO_NORM[alvo][k])

\* the first column, in column order, that passes the exact loop (0: none)
FirstExact(cn, alvo) ==
    LET hit == { i \in 1..Len(cn) : ExactMatch(cn[i], alvo) }
    IN  IF hit = {} THEN 0 ELSE Min(hit)

\* the first column that passes the fallback loop (0: none)
FirstPart(cn, alvo) ==
    LET hit == { i \in 1..Len(cn) : PartMatch(cn[i], alvo) }
    IN  IF hit = {} THEN 0 ELSE Min(hit)

\* `achou` after a single loop that takes exact and partial matches alike
achou_one_pass(cols, cn, alvo) ==
    LET p == FirstPart(cn, alvo)
    IN  IF p # 0 THEN Some(cols[p]) ELSE None

\* `achou` at the end of one iteration over ALVO_NOMES
achou(cols, cn, alvo) ==
    LET e == FirstExact(cn, alvo)
    IN  IF e # 0 /\ cols[e] # <<>> THEN Some(cols[e])
        ELSE LET p == FirstPart(cn, alvo)
             IN  IF p # 0 THEN Some(cols[p]) ELSE None

mapear_colunas(cols) ==
    LET cn  == cols_norm(cols)
        res == [k \in 1..Len(ALVO_KEYS) |-> achou(cols, cn, ALVO_KEYS[k])]
        found == { k \in 1..Len(ALVO_KEYS) : res[k].some /\ res[k].v # <<>> }
    IN  [alvo \in { ALVO_KEYS[k] : k \in found } |->
            res[CHOOSE k \in found : ALVO_KEYS[k] = alvo].v]

\* find_col on the normalized columns: the first target, in list order,
\* that some column equals or contains, and for it the first such column
RECURSIVE find_in(_, _, _)
find_in(cols, cn, targets) ==
    IF targets = <<>> THEN None
    ELSE LET tnorm == norm(targets[1])
             hit == { i \in 1..Len(cn) :
                        cn[i] = tnorm \/ Contains(cn[i], tnorm) }
         IN  IF hit # {} THEN Some(cols[Min(hit)])
             ELSE find_in(cols, cn, Tail(targets))

find_col(cols, targets) == find_in(cols, cols_norm(cols), targets)

\* the column names the resolvers are tried on
ColPool ==
    { fDestino, cDestinoFinal, fQtdEntregue, cQTD,
      cValorTotal, cValorTotalRS, cDescricao, cFornecedor }

MapearColunas ==
    /\ mapeamento' = mapear_colunas(df_cols)
    /\ cop' = "mapear_colunas"
    /\ UNCHANGED <<df_cols, achado>>
    /\ UNCHANGED <<authVars, mergeVars, filterVars, normVars>>

FindCol(targets) ==
    /\ achado' = [targets |-> targets, res |-> find_col(df_cols, targets)]
    /\ cop' = "find_col"
    /\ UNCHANGED <<df_cols, mapeamento>>
    /\ UNCHANGED <<authVars, mergeVars, filterVars, normVars>>

ColsIdle ==
    /\ df_cols = <<>>
    /\ mapeamento = <<>>
    /\ achado = [targets |-> <<>>, res |-> None]
    /\ cop = "init"

\* norm applied to the text in hand: nx first, then the last result
Norm ==
    /\ Len(ny) < 2
    /\ ny' = Append(ny, norm(IF ny = <<>> THEN nx ELSE ny[Len(ny)]))
    /\ UNCHANGED nx
    /\ UNCHANGED <<authVars, colVars, mergeVars, filterVars>>

NormIdle ==
    /\ nx = <<>>
    /\ ny = <<>>

-----------------------------------------------------------------------------
(* The workbook, its concatenation and the merge into canonical columns *)

\* a cell read_excel left empty, and the None of `df_work[alvo] = None`
NAN  == <<"<NaN>">>
NONE == <<"<None>">>

IsNull(v) == v = NAN \/ v = NONE

Range(s) == { s[i] : i \in 1..Len(s) }

TODAS == <<"(","T","o","d","a","s",")">>

\* cols followed by the elements of more that are not yet in it
RECURSIVE AppendNew(_, _)
AppendNew(cols, more) ==
    IF more = <<>> THEN cols
    ELSE AppendNew(IF more[1] \in Range(cols) THEN cols
                   ELSE Append(cols, more[1]),
                   Tail(more))

\* d2 = df.copy(); d2["ABA"] = aba
WithAba(sheet) ==
    LET columns == AppendNew(sheet.cols, <<cABA>>)
    IN  [columns |-> columns,
         rows |-> [r \in 1..Len(sheet.rows) |->
                     [c \in Range(columns) |->
                         IF c = cABA THEN sheet.aba ELSE sheet.rows[r][c]]]]

RECURSIVE ConcatCols(_)
ConcatCols(dfs) ==
    IF dfs = <<>> THEN <<>>
    ELSE AppendNew(dfs[1].columns, ConcatCols(Tail(dfs)))

RECURSIVE ConcatRows(_, _)
ConcatRows(dfs, columns) ==
    IF dfs = <<>> THEN <<>>
    ELSE [r \in 1..Len(dfs[1].rows) |->
            [c \in Range(columns) |->
                IF c \in Range(dfs[1].columns) THEN dfs[1].rows[r][c]
                ELSE NAN]]
         \o ConcatRows(Tail(dfs), columns)

\* pd.concat(dfs, ignore_index=True)
concat(dfs) ==
    LET columns == ConcatCols(dfs)
    IN  [columns |-> columns, rows |-> ConcatRows(dfs, columns)]

\* df_full (app.py 217-225)
DfFull(abas) == concat([i \in 1..Len(abas) |-> WithAba(abas[i])])

\* aba_col_mapeios[aba]; {} for a name that is no sheet
Mapeio(abas, aba) ==
    IF \E i \in 1..Len(abas) : abas[i].aba = aba
    THEN mapear_colunas(abas[CHOOSE i \in 1..Len(abas) : abas[i].aba = aba].cols)
    ELSE <<>>

AbaNames(abas) == { abas[i].aba : i \in 1..Len(abas) }

\* abas_escolhidas (app.py 280-286)
AbasEscolhidas(abas, sel) ==
    LET abas_especificas == sel \ {TODAS}
    IN  IF TODAS \in sel \/ abas_especificas = {}
        THEN AbaNames(abas)
        ELSE abas_especificas

\* df_full[df_full["ABA"].isin(abas_escolhidas)]
Recorte(abas, sel) ==
    LET full == DfFull(abas)
        IsIn(row) == row[cABA] \in AbasEscolhidas(abas, sel)
    IN  [columns |-> full.columns, rows |-> SelectSeq(full.rows, IsIn)]

\* df[alvo] = None
NewColumn(df, alvo) ==
    [columns |-> Append(df.columns, alvo),
     rows |-> [r \in 1..Len(df.rows) |->
                 [c \in Range(df.columns) \cup {alvo} |->
                     IF c = alvo THEN NONE ELSE df.rows[r][c]]]]

\* the first loop: create each canonical column that does not exist yet
RECURSIVE CreateMissing(_, _)
CreateMissing(df, alvos) ==
    IF alvos = <<>> THEN df
    ELSE CreateMissing(IF alvos[1] \notin Range(df.columns)
                       THEN NewColumn(df, alvos[1]) ELSE df,
                       Tail(alvos))

\* df.loc[mask, alvo] = df.loc[mask, col_real], mask = (df["ABA"] == aba)
CopyEverywhere(df, aba, alvo, col_real) ==
    [columns |-> df.columns,
     rows |-> [r \in 1..Len(df.rows) |->
                 [df.rows[r] EXCEPT ![alvo] = df.rows[r][col_real]]]]

CopyMasked(df, aba, alvo, col_real) ==
    [columns |-> df.columns,
     rows |-> [r \in 1..Len(df.rows) |->
                 IF df.rows[r][cABA] = aba
                 THEN [df.rows[r] EXCEPT ![alvo] = df.rows[r][col_real]]
                 ELSE df.rows[r]]]

\* one iteration of the inner loop over ALVO_NOMES
CopyStep(df, aba, alvo, m) ==
    IF alvo \notin DOMAIN m \/ m[alvo] = <<>> THEN df
    ELSE IF m[alvo] = alvo THEN df
    ELSE IF m[alvo] \in Range(df.columns) /\ alvo \in Range(df.columns)
         THEN CopyMasked(df, aba, alvo, m[alvo])
         ELSE df

RECURSIVE CopyAlvos(_, _, _, _)
CopyAlvos(df, aba, alvos, m) ==
    IF alvos = <<>> THEN df
    ELSE CopyAlvos(CopyStep(df, aba, alvos[1], m), aba, Tail(alvos), m)

\* df["ABA"].unique(), in order of first appearance
RECURSIVE UniqueAbas(_)
UniqueAbas(rows) ==
    IF rows = <<>> THEN <<>>
    ELSE AppendNew(<<rows[1][cABA]>>, UniqueAbas(Tail(rows)))

RECURSIVE CopyAbas(_, _, _)
CopyAbas(df, abas, names) ==
    IF names = <<>> THEN df
    ELSE CopyAbas(CopyAlvos(df, names[1], ALVO_KEYS, Mapeio(abas, names[1])),
                  abas, Tail(names))

\* df_work after app.py 289-309
DfWork(abas, sel) ==
    LET base    == Recorte(abas, sel)
        created == CreateMissing(base, ALVO_KEYS)
    IN  CopyAbas(created, abas, UniqueAbas(created.rows))

EmptyDf == [columns |-> <<>>, rows |-> <<>>]

\* one script run down to the merge
Merge ==
    /\ df_work' = DfWork(todas_abas, abas_sel)
    /\ mop' = "merged"
    /\ UNCHANGED <<todas_abas, abas_sel>>
    /\ UNCHANGED <<authVars, colVars, normVars>>
    /\ UNCHANGED filterVars

\* the multiselect of the sidebar changes, and the script runs again
SelectAbas(sel) ==
    /\ mop = "merged"
    /\ sel \subseteq {TODAS} \cup AbaNames(todas_abas)
    /\ abas_sel' = sel
    /\ df_work' = DfWork(todas_abas, sel)
    /\ UNCHANGED <<todas_abas, mop>>
    /\ UNCHANGED <<authVars, colVars, normVars>>
    /\ UNCHANGED filterVars

MergeIdle ==
    /\ todas_abas = <<>>
    /\ abas_sel = {}
    /\ df_work = EmptyDf
    /\ mop = "init"

-----------------------------------------------------------------------------
(* Workbooks the merge is tried on *)

sS1 == <<"S","1">>
sS2 == <<"S","2">>

\* column names of the sheets
SheetCols == { fDestino, cDestinos, fQtdEntregue, cQTD, cFornecedor }

\* the text of the cell of sheet aba, row r, column c; the last row of a
\* sheet is empty in its last column when the sheet has several columns
CellText(aba, r, nrows, j, ncols) ==
    IF r = nrows /\ j = ncols /\ ncols > 1 THEN NAN
    ELSE aba \o <<"r", r, "c", j>>

MkSheet(aba, cols) ==
    [aba |-> aba, cols |-> cols,
     rows |-> [r \in 1..SheetRows |->
                 [c \in Range(cols) |->
                     LET j == CHOOSE x \in 1..Len(cols) : cols[x] = c
                     IN  CellText(aba, r, SheetRows, j, Len(cols))]]]

ColSeqs(n) ==
    { t \in [1..n -> SheetCols] : \A i, j \in 1..n : i # j => t[i] # t[j] }

\* one or two sheets with at most MaxWbCols columns in all
Workbooks ==
    { <<MkSheet(sS1, t)>> : t \in UNION { ColSeqs(n) : n \in 1..MaxWbCols } }
    \cup
    UNION { { <<MkSheet(sS1, t1), MkSheet(sS2, t2)>> :
                t1 \in ColSeqs(n[1]), t2 \in ColSeqs(n[2]) } :
            n \in { x \in (1..MaxWbCols) \X (1..MaxWbCols) :
                      x[1] + x[2] <= MaxWbCols } }

-----------------------------------------------------------------------------
(* The chained filters of the sidebar (app.py 328-427) *)

NENHUM == <<"(","N","e","n","h","u","m",")">>
TODOS  == <<"(","T","o","d","o","s",")">>

\* the key of a widget: its name and the reset_key it was formatted with
Key(name, rk) == <<name, rk>>

\* the names in the keys of the five column selectors
FiltroKey == <<"filtro1", "filtro2", "filtro3", "filtro4", "filtro5">>

\* the names in the keys of the five value selectors, as written in the code
ValorKey == <<"valor1", "valor2", "valor3", "valor4", "valor4">>

NoWidgets == [k \in {} |-> <<>>]

\* opcoes_presentes = [c for c in CAMPOS if c in df_work.columns]
opcoes_presentes(df) ==
    LET Present(c) == c \in Range(df.columns)
    IN  SelectSeq(CAMPOS, Present)

\* The run so far: ok (no exception yet), the keys of the widgets created,
\* the rows left in df_filtrado (as indices into df_work), and per step the
\* options offered and the choice made (<<>> where no widget was created).
Start(df) ==
    [ok |-> TRUE, keys |-> <<>>, rows |-> [i \in 1..Len(df.rows) |-> i],
     opcoes |-> [k \in 1..5 |-> <<>>], filtro |-> [k \in 1..5 |-> NENHUM],
     valores |-> [k \in 1..5 |-> {}], valor |-> [k \in 1..5 |-> TODOS],
     shown |-> {}, w |-> NoWidgets]

\* what a selectbox with this key returns: the session value when it is one
\* of the options, else the first option
WidgetValue(w, key, options, default) ==
    IF key \in DOMAIN w /\ w[key] \in options THEN w[key] ELSE default

\* st.sidebar.selectbox(..., key=key): a key used twice in one run raises
Duplicate(st, key) == key \in Range(st.keys)

\* the rows of df_filtrado where df_filtrado[col] == valor
Narrow(df, rows, col, valor) ==
    LET Keep(i) == df.rows[i][col] = valor
    IN  SelectSeq(rows, Keep)

\* serie.dropna().astype(str).unique()
valores_unicos(df, rows, col) ==
    { df.rows[rows[n]][col] : n \in { x \in 1..Len(rows) :
                                          ~IsNull(df.rows[rows[x]][col]) } }

\* the column selector of step k, offered `options` (a sequence)
SelectFiltro(st, w, rk, k, options) ==
    LET key == Key(FiltroKey[k], rk)
    IN  IF Duplicate(st, key) THEN [st EXCEPT !.ok = FALSE]
        ELSE LET v == WidgetValue(w, key, Range(options), options[1])
             IN  [st EXCEPT !.keys = Append(@, key),
                            !.opcoes[k] = options,
                            !.filtro[k] = v,
                            !.w = Put(@, key, v)]

\* select_valor_com_todos for step k on column col, then the narrowing
SelectValor(st, w, rk, k, df, col) ==
    LET key == Key(ValorKey[k], rk)
    IN  IF Duplicate(st, key) THEN [st EXCEPT !.ok = FALSE]
        ELSE LET opts == {TODOS} \cup valores_unicos(df, st.rows, col)
                 v    == WidgetValue(w, key, opts, TODOS)
             IN  [st EXCEPT !.keys = Append(@, key),
                            !.valores[k] = opts,
                            !.valor[k] = v,
                            !.shown = @ \cup {k},
                            !.w = Put(@, key, v),
                            !.rows = IF v = TODOS THEN @
                                     ELSE Narrow(df, @, col, v)]

\* restantes_k: the options not chosen at steps 1..k-1
restantes_last(opcoes, st, k) ==
    LET Free(c) == c # st.filtro[k - 1] /\ c # NENHUM
    IN  SelectSeq(opcoes, Free)

restantes(opcoes, st, k) ==
    LET Free(c) == (\A j \in 1..(k - 1) : c # st.filtro[j]) /\ c # NENHUM
    IN  SelectSeq(opcoes, Free)

\* 1st filter (mandatory)
Step1(st, w, rk, df, opcoes) ==
    LET s1 == SelectFiltro(st, w, rk, 1, opcoes)
    IN  IF ~s1.ok THEN s1
        ELSE SelectValor(s1, w, rk, 1, df, s1.filtro[1])

\* k-th filter (optional), k in 2..5
StepK(st, w, rk, df, opcoes, k) ==
    IF ~st.ok THEN st
    ELSE LET s1 == SelectFiltro(st, w, rk, k,
                                <<NENHUM>> \o restantes(opcoes, st, k))
         IN  IF ~s1.ok THEN s1
             ELSE IF s1.filtro[k] # NENHUM
                        /\ s1.filtro[k] \in Range(df.columns)
                  THEN SelectValor(s1, w, rk, k, df, s1.filtro[k])
                  ELSE s1

\* the sidebar of one script run, over df_work and the session's widgets
RunFilters(df, w, rk) ==
    LET opcoes == opcoes_presentes(df)
    IN  IF opcoes = <<>> THEN Start(df)
        ELSE LET s1 == Step1(Start(df), w, rk, df, opcoes)
                 s2 == StepK(s1, w, rk, df, opcoes, 2)
                 s3 == StepK(s2, w, rk, df, opcoes, 3)
                 s4 == StepK(s3, w, rk, df, opcoes, 4)
                 s5 == StepK(s4, w, rk, df, opcoes, 5)
             IN  s5

\* the script runs with nothing changed by the user
Render ==
    /\ view' = RunFilters(df_work, wstate, reset_key)
    /\ wstate' = view'.w
    /\ fop' = "run"
    /\ UNCHANGED <<reset_key, mergeVars>>
    /\ UNCHANGED <<authVars, colVars, normVars>>

\* the options the page shows for the widget with this key
Offered(v, key) ==
    UNION { IF Key(FiltroKey[k], key[2]) = key /\ v.opcoes[k] # <<>>
            THEN Range(v.opcoes[k]) ELSE {} : k \in 1..5 }
    \cup
    UNION { IF Key(ValorKey[k], key[2]) = key /\ k \in v.shown
            THEN v.valores[k] ELSE {} : k \in 1..5 }

\* the user picks one of the options of a widget of the page, and the
\* script runs
Pick ==
    \E key \in Range(view.keys) :
        \E value \in Offered(view, key) :
            /\ view' = RunFilters(df_work, Put(wstate, key, value), reset_key)
            /\ wstate' = view'.w
            /\ fop' = "run"
            /\ UNCHANGED <<reset_key, mergeVars>>
            /\ UNCHANGED <<authVars, colVars, normVars>>

\* a clear that pops nothing and leaves reset_key as it was
limpar_nothing(w, rk) == [w |-> w, rk |-> rk]

\* limpar_filtros(): every entry whose key names a filter widget is popped
\* and reset_key takes the time of the call, later than any before
limpar_filtros(w, rk) ==
    LET names == Range(FiltroKey) \cup Range(ValorKey)
        kept  == { key \in DOMAIN w : key[1] \notin names }
    IN  [w |-> [key \in kept |-> w[key]], rk |-> rk + 1]

\* the button "Limpar filtros": limpar_filtros(), then the rerun it asks for
LimparFiltros ==
    /\ reset_key < MaxResets
    /\ LET after == limpar_filtros(wstate, reset_key)
       IN  /\ reset_key' = after.rk
           /\ view' = RunFilters(df_work, after.w, after.rk)
    /\ wstate' = view'.w
    /\ fop' = "limpar_filtros"
    /\ UNCHANGED mergeVars
    /\ UNCHANGED <<authVars, colVars, normVars>>

FilterIdle ==
    /\ wstate = NoWidgets
    /\ reset_key = 0
    /\ view = Start(EmptyDf)
    /\ fop = "none"

-----------------------------------------------------------------------------
(* Workbooks the filters are tried on *)

\* the table of the end-to-end scenario
SheetCenario ==
    [aba |-> sS1, cols |-> <<fDestino, fQtdEntregue>>,
     rows |-> << (fDestino :> <<"A">>) @@ (fQtdEntregue :> <<"1","0">>),
                 (fDestino :> <<"B">>) @@ (fQtdEntregue :> <<"5">>) >>]

\* the scenario alone; a sheet under the headers CAMPOS names; the scenario
\* with a second sheet that has an empty cell
FilterWorkbooks ==
    { <<SheetCenario>>,
      << [aba |-> sS1, cols |-> <<cDestinos, cNOF>>,
          rows |-> << (cDestinos :> <<"A">>) @@ (cNOF :> <<"1","0">>),
                      (cDestinos :> <<"B">>) @@ (cNOF :> <<"1","0">>) >>] >>,
      << SheetCenario,
         [aba |-> sS2, cols |-> <<cDestinos, cQTD>>,
          rows |-> << (cDestinos :> <<"A">>) @@ (cQTD :> <<"5">>),
                      (cDestinos :> <<"B">>) @@ (cQTD :> NAN) >>] >> }

-----------------------------------------------------------------------------
(* Specifications *)

AuthIdle ==
    /\ secrets = [present |-> FALSE, section |-> NoSection]
    /\ credfile = [exists |-> FALSE, valid |-> FALSE, data |-> NoData]
    /\ users = NoData
    /\ session = NoSession
    /\ page = "none"
    /\ op = OpRec("construct", <<>>, <<>>, FALSE, TRUE)
    /\ nadds = 0

InitAuth ==
    /\ secrets \in SecretsPool
    /\ credfile \in FilePool
    /\ users = load_credentials(secrets, credfile)
    /\ session = NoSession
    /\ page = "none"
    /\ op = OpRec("construct", <<>>, <<>>, FALSE, TRUE)
    /\ nadds = 0
    /\ ColsIdle
    /\ MergeIdle
    /\ FilterIdle
    /\ NormIdle

NextAuth ==
    \/ Construct
    \/ \E u \in Usernames, p \in Passwords : Authenticate(u, p)
    \/ \E u \in {uA, uB}, p \in {pP, pQ}, s \in GenSalts :
          AddUser(u, p, u, tUser, s)
    \/ Rerun
    \/ Submit
    \/ Logout

SpecAuth == InitAuth /\ [][NextAuth]_vars

\* tables of 1..MaxCols distinct columns
InitCols ==
    /\ df_cols \in { t \in UNION { [1..n -> ColPool] : n \in 1..MaxCols } :
                        \A i, j \in 1..Len(t) : i # j => t[i] # t[j] }
    /\ mapeamento = <<>>
    /\ achado = [targets |-> <<>>, res |-> None]
    /\ cop = "init"
    /\ AuthIdle
    /\ MergeIdle
    /\ FilterIdle
    /\ NormIdle

NextCols ==
    \/ MapearColunas
    \/ \E targets \in {TARGETS_DEST, TARGETS_VALOR, TARGETS_UNID} : FindCol(targets)

SpecCols == InitCols /\ [][NextCols]_vars

InitMerge ==
    /\ todas_abas \in Workbooks
    /\ abas_sel = {TODAS}
    /\ df_work = EmptyDf
    /\ mop = "init"
    /\ AuthIdle
    /\ ColsIdle
    /\ FilterIdle
    /\ NormIdle

NextMerge ==
    \/ Merge
    \/ \E sel \in { {TODAS}, {}, {sS1}, {sS2} } : SelectAbas(sel)

SpecMerge == InitMerge /\ [][NextMerge]_vars

InitFilter ==
    /\ todas_abas \in FilterWorkbooks
    /\ abas_sel = {TODAS}
    /\ df_work = DfWork(todas_abas, abas_sel)
    /\ mop = "merged"
    /\ wstate = NoWidgets
    /\ reset_key = 0
    /\ view = Start(df_work)
    /\ fop = "none"
    /\ AuthIdle
    /\ ColsIdle
    /\ NormIdle

NextFilter ==
    \/ Render
    \/ Pick
    \/ LimparFiltros

SpecFilter == InitFilter /\ [][NextFilter]_vars

\* texts of up to MaxNormLen characters: a letter in both cases, spaces, and
\* characters outside ASCII with and without a decomposition
InitNorm ==
    /\ nx \in UNION { [1..n -> {"a", "A", " ", "nbsp", "degree", "ordm",
                                "A_TILDE", "fraktur_H"}] : n \in 0..MaxNormLen }
    /\ ny = <<>>
    /\ AuthIdle
    /\ ColsIdle
    /\ MergeIdle
    /\ FilterIdle

SpecNorm == InitNorm /\ [][Norm]_vars
-----------------------------------------------------------------------------
(* Claims about the credential store and the gate (checked under SpecAuth) *)

\* stored is the bcrypt hash of password under some salt
BcryptVerifies(password, stored) ==
    \E pfx \in BcryptPrefixes, salt \in [1..SaltLen -> SaltChars] :
        stored = pfx \o salt \o Digest(password, salt)

ExpectedAuth(us, username, password) ==
    /\ username \in DOMAIN us
    /\ LET stored == us[username][kPassword]
       IN  IF \E pfx \in BcryptPrefixes : StartsWith(stored, pfx)
           THEN BcryptVerifies(password, stored)
           ELSE password = stored

\* C1: authenticate returns false for a username that is not in the
\* credential set; for a present one it returns true exactly when the stored
\* value verifies against the password, by bcrypt when the stored value
\* starts with a bcrypt prefix and by plain equality otherwise; and it never
\* changes the credential set (nor the file).
C1_AuthenticateContract ==
    /\ [](op.name = "authenticate" =>
            op.ret = ExpectedAuth(users, op.username, op.password))
    /\ [][op'.name = "authenticate" =>
            users' = users /\ credfile' = credfile]_vars

C1_Witness ==
    /\ op.name = "authenticate"
    /\ op.ret = TRUE
    /\ is_bcrypt(users[op.username][kPassword])

\* C2: add_user with a username already present returns false and leaves the
\* credential set and the file unchanged; with a new username it returns
\* true, keeps every other entry, stores a salted hash of the password (not
\* the password), and writes the whole in-memory set to the file, leaving
\* the secrets source alone.
C2_AddUserContract ==
    [][op'.name = "add_user" =>
        LET u == op'.username
            p == op'.password
        IN  /\ secrets' = secrets
            /\ IF u \in DOMAIN users
               THEN /\ op'.ret = FALSE
                    /\ users' = users
                    /\ credfile' = credfile
               ELSE /\ op'.ret = TRUE
                    /\ DOMAIN users' = (DOMAIN users) \cup {u}
                    /\ \A v \in DOMAIN users : users'[v] = users[v]
                    /\ users'[u][kPassword] # p
                    /\ \E pfx \in BcryptPrefixes :
                          StartsWith(users'[u][kPassword], pfx)
                    /\ BcryptVerifies(p, users'[u][kPassword])
                    /\ credfile'.exists /\ credfile'.valid
                    /\ credfile'.data = users']_vars

C2_Witness ==
    /\ op.name = "add_user"
    /\ op.ret = TRUE
    /\ DOMAIN load_from_secrets(secrets) # {}
    /\ credfile.data = users
    /\ Cardinality(DOMAIN users) = 2

\* C3: a freshly constructed AuthManager holds exactly the entries of the
\* secrets source when that source yields at least one, and exactly those of
\* the JSON file otherwise; it never holds entries of both.
C3_OneSourceOnly ==
    op.name \in {"construct", "run"} =>
        LET S == load_from_secrets(secrets)
            J == load_from_json(credfile)
        IN  /\ DOMAIN S # {} => users = S
            /\ DOMAIN S = {} => users = J
            /\ ~ \E u, v \in DOMAIN users :
                    /\ u \in DOMAIN S
                    /\ v \notin DOMAIN S
                    /\ v \in DOMAIN J

C3_Witness ==
    /\ op.name = "construct"
    /\ DOMAIN load_from_secrets(secrets) # {}
    /\ users = load_from_secrets(secrets)
    /\ \E v \in DOMAIN load_from_json(credfile) : v \notin DOMAIN users

Authd(ss) == "authenticated" \in DOMAIN ss /\ ss["authenticated"]

\* C4: the authenticated flag turns true only in a run whose login form was
\* submitted with a non-empty username and password that authenticate
\* accepted; a run renders the dashboard only when the flag is set; and
\* logout leaves authenticated false and username and user_info None.
C4_LoginGate ==
    /\ [](page = "dashboard" => Authd(session))
    /\ [][(Authd(session') /\ ~Authd(session)) =>
            /\ op'.name = "run"
            /\ op'.submit
            /\ op'.username # <<>>
            /\ op'.password # <<>>
            /\ op'.ret]_vars
    /\ [](op.name = "logout" =>
            /\ session["authenticated"] = FALSE
            /\ session["username"] = NoText
            /\ session["user_info"] = NoInfo)

C4_Witness ==
    /\ op.name = "logout"
    /\ page = "rerun"
    /\ ~Authd(session)

\* C16: a user added by a successful add_user is still known after a reload:
\* when a new AuthManager is constructed on the same file and secrets source,
\* authenticate with the added username and password returns true.
C16_AddedSurvivesReload ==
    [][(op.name = "add_user" /\ op.ret /\ op'.name = "construct")
          => authenticate(users', op.username, op.password)]_vars

-----------------------------------------------------------------------------
(* Claims about the column resolvers (checked under SpecCols) *)

\* the columns whose normalized name equals a normalized alias of alvo
ExactCols(alvo) ==
    { i \in 1..Len(df_cols) :
        \E k \in 1..Len(ALVO_NOMES[alvo]) :
            norm(df_cols[i]) = norm(ALVO_NOMES[alvo][k]) }

\* the columns whose normalized name contains a normalized alias of alvo
PartCols(alvo) ==
    { i \in 1..Len(df_cols) :
        \E k \in 1..Len(ALVO_NOMES[alvo]) :
            Contains(norm(df_cols[i]), norm(ALVO_NOMES[alvo][k])) }

\* C5: mapear_colunas maps each target field to the first column, in
\* column order, whose normalized name equals a normalized alias; failing
\* that, to the first column whose normalized name contains a normalized
\* alias; and failing that too, the field has no entry.
C5_MapearColunas ==
    cop = "mapear_colunas" =>
        \A alvo \in DOMAIN ALVO_NOMES :
            IF ExactCols(alvo) # {}
            THEN /\ alvo \in DOMAIN mapeamento
                 /\ mapeamento[alvo] = df_cols[Min(ExactCols(alvo))]
            ELSE IF PartCols(alvo) # {}
            THEN /\ alvo \in DOMAIN mapeamento
                 /\ mapeamento[alvo] = df_cols[Min(PartCols(alvo))]
            ELSE alvo \notin DOMAIN mapeamento

\* a table where one field is resolved exactly although an earlier column
\* contains an alias, one by containment only, and one not at all
C5_Witness ==
    /\ cop = "mapear_colunas"
    /\ \E alvo \in DOMAIN mapeamento :
          /\ ExactCols(alvo) # {}
          /\ Min(PartCols(alvo)) < Min(ExactCols(alvo))
    /\ \E alvo \in DOMAIN mapeamento : ExactCols(alvo) = {}
    /\ \E alvo \in DOMAIN ALVO_NOMES : alvo \notin DOMAIN mapeamento

\* the first target of the list that some column equals or contains
FoundFor(targets) ==
    Min({ k \in 1..Len(targets) :
            \E i \in 1..Len(df_cols) :
                Contains(norm(df_cols[i]), norm(targets[k])) })

\* C6: in both resolvers a column whose normalized name equals the sought
\* alias or target is returned rather than one that only contains it,
\* whatever the column order.
C6_ExactWins ==
    /\ cop = "mapear_colunas" =>
          \A alvo \in DOMAIN ALVO_NOMES :
              ExactCols(alvo) # {} =>
                  /\ alvo \in DOMAIN mapeamento
                  /\ \E i \in ExactCols(alvo) : mapeamento[alvo] = df_cols[i]
    /\ (cop = "find_col" /\ achado.res.some) =>
          LET t == norm(achado.targets[FoundFor(achado.targets)])
          IN  (\E i \in 1..Len(df_cols) : norm(df_cols[i]) = t)
                  => norm(achado.res.v) = t

\* C13: norm is idempotent: applying it to its own result changes nothing,
\* norm(norm(x)) = norm(x) for every text x.
C13_NormIdempotent ==
    Len(ny) = 2 => ny[2] = ny[1]

\* C15: the mapping mapear_colunas returns is injective: two different
\* canonical fields never get the same real column.
C15_MappingInjective ==
    cop = "mapear_colunas" =>
        \A a \in DOMAIN mapeamento : \A b \in DOMAIN mapeamento :
            a # b => mapeamento[a] # mapeamento[b]

-----------------------------------------------------------------------------
(* Claims about the merge (checked under SpecMerge) *)

\* the working table as cut by sheet, before any canonical column is
\* created or filled (app.py 289)
BaseTable == Recorte(todas_abas, abas_sel)

CanonicalFields == Range(ALVO_KEYS)

\* what the claim says row r holds in canonical column alvo after the merge
MergedValue(r, alvo) ==
    LET row == BaseTable.rows[r]
        m   == Mapeio(todas_abas, row[cABA])
    IN  IF alvo \in DOMAIN m /\ m[alvo] # alvo
        THEN row[m[alvo]]
        ELSE IF alvo \in Range(BaseTable.columns) THEN row[alvo]
        ELSE NONE

\* C7: after the merge the table has the columns it had, followed by the
\* canonical columns that were missing; each row keeps its values in every
\* other column; and in a canonical column a row holds the value of the
\* real column its own sheet maps the field to when that column has another
\* name, and otherwise what it held before (empty in a created column).
C7_MergeFrame ==
    mop = "merged" =>
        /\ Len(df_work.rows) = Len(BaseTable.rows)
        /\ SubSeq(df_work.columns, 1, Len(BaseTable.columns))
              = BaseTable.columns
        /\ Range(df_work.columns)
              = Range(BaseTable.columns) \cup CanonicalFields
        /\ Len(df_work.columns)
              = Cardinality(Range(BaseTable.columns) \cup CanonicalFields)
        /\ \A r \in 1..Len(df_work.rows) :
              /\ \A c \in Range(BaseTable.columns) \ CanonicalFields :
                    df_work.rows[r][c] = BaseTable.rows[r][c]
              /\ \A alvo \in CanonicalFields :
                    df_work.rows[r][alvo] = MergedValue(r, alvo)

\* two sheets in the table: one maps a field to a column of another name,
\* the other holds the canonical column itself, and both kept their values
C7_Witness ==
    /\ mop = "merged"
    /\ \E r1, r2 \in 1..Len(df_work.rows) :
          LET a1 == df_work.rows[r1][cABA]
              a2 == df_work.rows[r2][cABA]
          IN  /\ a1 # a2
              /\ fDestino \in DOMAIN Mapeio(todas_abas, a1)
              /\ Mapeio(todas_abas, a1)[fDestino] = cDestinos
              /\ df_work.rows[r1][fDestino] = df_work.rows[r1][cDestinos]
              /\ ~IsNull(df_work.rows[r1][fDestino])
              /\ fDestino \in DOMAIN Mapeio(todas_abas, a2)
              /\ Mapeio(todas_abas, a2)[fDestino] = fDestino
              /\ df_work.rows[r2][fDestino] = BaseTable.rows[r2][fDestino]
              /\ ~IsNull(df_work.rows[r2][fDestino])
              /\ df_work.rows[r2][fDestino] # df_work.rows[r1][fDestino]

-----------------------------------------------------------------------------
(* Claims about the chained filters *)

\* step k of the page narrows: a concrete column with a concrete value
Concrete(v, k) == v.filtro[k] # NENHUM /\ v.valor[k] # TODOS

\* row i of df_work passes the steps 1..n of the page
Passes(v, i, n) ==
    \A k \in 1..n :
        Concrete(v, k) => df_work.rows[i][v.filtro[k]] = v.valor[k]

RowsPassing(v, n) ==
    LET Keep(i) == Passes(v, i, n)
    IN  SelectSeq([i \in 1..Len(df_work.rows) |-> i], Keep)

\* df_filtrado is exactly the rows of df_work that pass every step
RowsExact == view.rows = RowsPassing(view, 5)

\* the values offered at a step come from the rows left by the earlier steps
ValuesNarrowed ==
    \A k \in view.shown :
        view.valores[k] =
            {TODOS} \cup valores_unicos(df_work, RowsPassing(view, k - 1),
                                        view.filtro[k])

\* the scenario: the destination column can be chosen at step 1 and, with
\* value "A", leaves exactly the one row whose destination is "A"
Scenario ==
    (todas_abas = <<SheetCenario>> /\ view.keys # <<>>) =>
        /\ fDestino \in Range(view.opcoes[1])
        /\ (view.filtro[1] = fDestino /\ view.valor[1] = <<"A">>
                /\ (\A k \in 2..5 : ~Concrete(view, k)))
            => /\ Len(view.rows) = 1
               /\ df_work.rows[view.rows[1]][fDestino] = <<"A">>

\* a run that raised before the chain was complete
RunRaised == ~view.ok

\* C8: every run of the chain yields a filtered table; it holds exactly the
\* rows of the working table whose value in each step's chosen column equals
\* that step's chosen concrete value, a step on (Todos) or (Nenhum) removes
\* nothing, each step's offered values come from the table as narrowed by the
\* earlier steps, and on the two-row scenario table choosing the destination
\* column with value "A" at step 1 yields exactly the row with "A".
C8_FilterChain ==
    /\ ~RunRaised
    /\ RowsExact
    /\ ValuesNarrowed
    /\ Scenario

\* C9: the column options offered at each of steps 2 to 5 contain no column
\* chosen at an earlier step, so the concrete columns chosen along a chain
\* are pairwise distinct.
C9_NoColumnTwice ==
    /\ \A k \in 2..5 : \A j \in 1..(k - 1) :
          (view.opcoes[k] # <<>> /\ view.filtro[j] # NENHUM)
              => view.filtro[j] \notin Range(view.opcoes[k])
    /\ \A k \in 1..5 : \A j \in 1..5 :
          (j # k /\ view.filtro[j] # NENHUM /\ view.filtro[k] # NENHUM)
              => view.filtro[j] # view.filtro[k]

\* three concrete columns chosen in a row, and step 4 offering what is left
C9_Witness ==
    /\ view.filtro[2] # NENHUM
    /\ view.filtro[3] # NENHUM
    /\ view.opcoes[4] # <<>>
    /\ Len(view.opcoes[1]) > Len(view.opcoes[4])

\* the canonical fields of the aliaser that are columns of the working table
CanonicalPresent == { c \in Range(ALVO_KEYS) : c \in Range(df_work.columns) }

\* C10: the columns offered at step 1 are exactly the canonical fields of the
\* aliaser that are columns of the working table: every one of them can be
\* chosen and no other name is offered.
C10_Step1Canonical ==
    view.keys # <<>> => Range(view.opcoes[1]) = CanonicalPresent

\* C11: choosing (Nenhum) as the column of a step 2 to 5 ends the chain: in the
\* same run no later step holds a column or shows a value selector, so no
\* later step narrows the table.
C11_NenhumEndsChain ==
    \A k \in 2..5 :
        (view.opcoes[k] # <<>> /\ view.filtro[k] = NENHUM)
            => \A j \in (k + 1)..5 :
                  /\ view.filtro[j] = NENHUM
                  /\ j \notin view.shown

\* the chain as the first run shows it: the default column with (Todos) at
\* step 1, (Nenhum) at steps 2 to 5, and every row of the working table
InitialChain(v) ==
    /\ v.ok
    /\ v.filtro[1] = opcoes_presentes(df_work)[1]
    /\ v.valor[1] = TODOS
    /\ \A k \in 2..5 : v.opcoes[k] # <<>> /\ v.filtro[k] = NENHUM
    /\ v.shown = {1}
    /\ v.rows = [i \in 1..Len(df_work.rows) |-> i]

\* C12: the run that follows the clear-filters action shows the chain in its
\* initial state, whatever was selected before: default column and (Todos) at
\* step 1, (Nenhum) at steps 2 to 5, no entry of an earlier selection left in
\* the session, and the filtered table equal to the working table.
C12_ClearResets ==
    fop = "limpar_filtros" =>
        /\ InitialChain(view)
        /\ \A key \in DOMAIN wstate :
              /\ key[2] = reset_key
              /\ wstate[key] \in {TODOS, NENHUM, view.filtro[1]}

\* a clear has just run, on a workbook whose sidebar offers several columns
C12_Witness ==
    /\ fop = "limpar_filtros"
    /\ reset_key > 0
    /\ Len(view.opcoes[1]) > 1
    /\ Len(view.keys) = 6

\* C14: in every run of the sidebar the selectors created have pairwise
\* distinct keys and no run fails on a duplicate key, so the five steps can
\* hold a column and a value at the same time.
C14_DistinctKeys ==
    /\ \A i \in 1..Len(view.keys) : \A j \in 1..Len(view.keys) :
          i # j => view.keys[i] # view.keys[j]
    /\ ~RunRaised
=============================================================================
